---- MODULE Spec2Model ----
(***************************************************************************)
(* Model of pipeline_runner/cache.py: the CacheManager, the generic        *)
(* restore/save strategies, the no-op strategy and the strategy factories, *)
(* run against a container (remote directories) and the local cache        *)
(* directory (archive files); and of the pipeline parser exercised by      *)
(* tests/test_parse.py.                                                    *)
(*                                                                         *)
(*   Spec      one CacheManager: upload/download calls, one after another  *)
(*   ConcSpec  two callers, one generic restore or save each, interleaved  *)
(*   RoundTripSpec  Spec on a container used before, then on another one    *)
(*   ParseSpec Pipeline.parse_obj on a document                            *)
(*   ImageSpec Image.parse_obj on a document, then expand_env_vars          *)
(*   DefaultsSpec  parse_obj of Definitions, Step and Pipelines documents   *)
(*   DockerSaveSpec  DockerCacheSave.save over the runtime's image list     *)
(*                                                                         *)
(* A remote or local path is a sequence of path components.  A directory's *)
(* content is a sequence of file sets: <<>> is "no such directory",        *)
(* <<d>> a directory holding the files d, and <<d, e>> a directory holding *)
(* d into which `mv` has moved a directory holding e.                      *)
(***************************************************************************)
EXTENDS Integers, Sequences, FiniteSets, TLC

\* ------------------------------------------------------------------ bounds
MaxNames == 2        \* longest cache_names list passed to upload/download
MaxCalls == 2        \* CacheManager calls made on one container
MaxItems == 4        \* longest pipeline document parsed
NChunks == 2         \* chunks in the stream get_archive returns
MaxImages == 2       \* longest list client.images.list() returns

\* --------------------------------------------------------------- universe
CacheNames == {"docker", "pip", "node"}
Absent == <<>>

\* The cache definitions the CacheManager is constructed with: "pip" has a
\* definition, "node" is a cache name without one.
DefinitionChoices == { [n \in {"pip"} |-> <<"~", ".cache/pip">>] }

\* Definitions of two names, with distinct paths or with one shared path
\* (used where two operations run concurrently).
ConcurrentDefinitionChoices ==
    { [n \in {"pip", "node"} |-> IF n = "pip" THEN <<"~", ".cache/pip">> ELSE <<"node_modules">>],
      [n \in {"pip", "node"} |-> <<"~", ".cache/pip">>] }

VARIABLES
    cache_definitions,  \* CacheManager._cache_definitions: name -> path
    fs,                 \* the container: remote path -> directory content
    local,              \* the local cache directory: local path -> file
    op,                 \* "none", "upload" or "download": the running call
    cache_names,        \* the list the call was given
    idx,                \* position in cache_names of the loop
    pc,                 \* position inside restore() / save()
    status,             \* "idle", "running", "returned", "raised"
    log,                \* container calls and local writes of this call
    result,             \* per position: outcome of its restore/save
    pre,                \* per position: what was there when it began
    tmp,                \* name of the open NamedTemporaryFile
    stream,             \* the archive get_archive is streaming
    calls,              \* number of calls made so far
    procs,              \* two concurrent operations: kind, name, position
    start,              \* the state the concurrent operations started from
    overlap,            \* whether the two operations have interleaved
    doc,                \* the pipeline document handed to the parser
    parsed,             \* what parsing the document gave
    docker,             \* one DockerCacheSave.save: images, position, files
    saved               \* per name: the save that wrote its archive, if any

vars == <<cache_definitions, fs, local, op, cache_names, idx, pc, status,
          log, result, pre, tmp, stream, calls, procs, start, overlap,
          doc, parsed, docker, saved>>

\* state of the concurrent operations and of the parser, untouched by a
\* CacheManager call
others == <<procs, start, overlap, doc, parsed, docker>>
\* state of the parser
parsing == <<doc, parsed>>
\* state of the container and the local cache directory
storage == <<cache_definitions, fs, local>>
\* state of a CacheManager call, untouched by the concurrent operations
manager == <<op, cache_names, idx, pc, status, log, result, pre, tmp, stream, calls,
             saved>>

\* ---------------------------------------------------------- path helpers
caches_dir == <<"/caches">>

sanitize_remote_path(path) ==
    IF path # <<>> /\ Head(path) = "~" THEN <<"$HOME">> \o Tail(path) ELSE path

\* mutant: one staging directory for every cache name
get_remote_temp_directory_shared(cache_name) == caches_dir \o <<"pip">>

get_remote_temp_directory(cache_name) == caches_dir \o <<cache_name>>

get_local_cache_archive_path(cache_name) == <<"cache", cache_name, ".tar">>

dirname(path) == SubSeq(path, 1, Len(path) - 1)
basename(path) == path[Len(path)]

TempNames == {<<"cache", "tmp1">>, <<"cache", "tmp2">>}

Targets(choices) == UNION {{sanitize_remote_path(d[n]) : n \in DOMAIN d} : d \in choices}
DefPaths == UNION {{d[n] : n \in DOMAIN d} : d \in DefinitionChoices \cup ConcurrentDefinitionChoices}
RemotePaths == {get_remote_temp_directory(n) : n \in CacheNames}
               \cup {sanitize_remote_path(p) : p \in DefPaths}
LocalPaths == {get_local_cache_archive_path(n) : n \in CacheNames} \cup TempNames

\* ------------------------------------------------------------ local files
NoFile == [exists |-> FALSE, top |-> "", body |-> Absent, written |-> 0]
EmptyFile == [exists |-> TRUE, top |-> "", body |-> Absent, written |-> 0]
ArchiveFile(top, body) == [exists |-> TRUE, top |-> top, body |-> body, written |-> NChunks]
NoStream == [top |-> "", body |-> Absent]
Complete(f) == f.exists /\ f.written = NChunks /\ f.body # Absent

\* ------------------------------------------- the container (shell, docker)
\* mv "src" "dst": `ok` is whether the rename itself succeeds when attempted.
\* An existing dst directory receives src as an entry; mv refuses when dst
\* already holds a non-empty entry of that name.
Mv(f, src, dst, ok) ==
    IF f[src] = Absent \/ ~ok THEN [fs |-> f, exit |-> 1]
    ELSE IF f[dst] = Absent
         THEN [fs |-> [f EXCEPT ![dst] = f[src], ![src] = Absent], exit |-> 0]
    ELSE IF Len(f[dst]) = 1
         THEN [fs |-> [f EXCEPT ![dst] = f[dst] \o f[src], ![src] = Absent], exit |-> 0]
    ELSE [fs |-> f, exit |-> 1]

\* rm -rf "path" guarded by an existence test
RmRf(f, path) == [f EXCEPT ![path] = Absent]

\* [ -d staging ] && rm -rf staging; mkdir -p parent   (exit code of mkdir)
prepare_cache_dir_cmd(f, cache_name, ok) ==
    [fs |-> RmRf(f, get_remote_temp_directory(cache_name)),
     exit |-> IF ok THEN 0 ELSE 1]

\* mutant: the script does not remove the target first
restore_cache_script_keep_target(f, temp_dir, target_dir, ok) ==
    Mv(f, temp_dir, target_dir, ok)

\* if [ -e target ]; then rm -rf target; fi / mkdir -p parent / mv temp target
\* (exit code of the last command)
restore_cache_script(f, temp_dir, target_dir, ok) ==
    Mv(RmRf(f, target_dir), temp_dir, target_dir, ok)

\* mutant: the source directory is copied, not moved
prepare_cache_cmd_copy(f, remote_dir, target_dir, ok) ==
    IF f[remote_dir] = Absent THEN [fs |-> f, exit |-> 0]
    ELSE IF ok THEN [fs |-> [f EXCEPT ![target_dir] = f[remote_dir]], exit |-> 0]
    ELSE [fs |-> f, exit |-> 1]

\* if [ -e remote_dir ]; then mv remote_dir target_dir; fi
prepare_cache_cmd(f, remote_dir, target_dir, ok) ==
    IF f[remote_dir] = Absent THEN [fs |-> f, exit |-> 0]
    ELSE Mv(f, remote_dir, target_dir, ok)

\* ContainerRunner.put_archive(dir, stream): unpack the archive under dir;
\* what a directory of that name already holds stays beside what is unpacked
put_archive(f, dir, file) ==
    [f EXCEPT ![dir \o <<file.top>>] = f[dir \o <<file.top>>] \o file.body]

\* ContainerRunner.get_archive(src): the archive of the directory src
get_archive(f, src) == [top |-> basename(src), body |-> f[src]]

\* mutant: the staging path is taken to exist
path_exists_always(f, path) == TRUE

\* ContainerRunner.path_exists(path)
path_exists(f, path) == f[path] # Absent

\* ----------------------------------------------------- strategy factories
\* mutant: the reserved name is given the container-image strategy
CacheRestoreFactory_get_docker(cache_name) ==
    IF cache_name = "docker" THEN "DockerCacheRestore" ELSE "CacheRestore"

CacheRestoreFactory_get(cache_name) ==
    IF cache_name = "docker" THEN "NullCacheRestore" ELSE "CacheRestore"

\* mutant: the reserved name is given the generic strategy
CacheSaveFactory_get_generic(cache_name) == "CacheSave"

CacheSaveFactory_get(cache_name) ==
    IF cache_name = "docker" THEN "NullCacheSave" ELSE "CacheSave"

\* ------------------------------------------------------- manager's loops
\* mutant: the loop swallows the exception and goes on
upload_loop_continue(raised, i) == [status |-> "running", idx |-> i + 1]

\* mutant: the loop steps over every other name
upload_loop_skip(raised, i) ==
    IF raised THEN [status |-> "raised", idx |-> i]
    ELSE [status |-> "running", idx |-> i + 2]

\* for name in cache_names: ...restore(): an exception leaves the loop
upload_loop(raised, i) ==
    IF raised THEN [status |-> "raised", idx |-> i]
    ELSE [status |-> "running", idx |-> i + 1]

\* mutant: the loop swallows the exception and goes on
download_loop_continue(raised, i) == [status |-> "running", idx |-> i + 1]

\* for name in cache_names: ...save(): an exception leaves the loop
download_loop(raised, i) ==
    IF raised THEN [status |-> "raised", idx |-> i]
    ELSE [status |-> "running", idx |-> i + 1]

\* ------------------------------------------------- definition lookup
\* mutant: a name without a definition is given the path of a defined one
cache_definition_fallback(defs, name) ==
    [found |-> TRUE,
     path |-> IF name \in DOMAIN defs THEN defs[name]
              ELSE defs[CHOOSE n \in DOMAIN defs : TRUE]]

\* self._cache_definitions[self._cache_name]: KeyError for a name without one
cache_definition(defs, name) ==
    [found |-> name \in DOMAIN defs,
     path |-> IF name \in DOMAIN defs THEN defs[name] ELSE <<>>]

\* ------------------------------------------ checks of what a call returned
\* mutant: the exit code of the staging-clear command is not looked at
upload_prepare_failed_ignored(res) == FALSE

\* _upload_cache: if res != 0: raise
upload_prepare_failed(res) == res # 0

\* mutant: the result of put_archive is not looked at
put_archive_failed_ignored(success) == FALSE

\* _upload_cache: if not success: raise
put_archive_failed(success) == ~success

\* _restore_cache: if exit_code != 0: raise
restore_failed(exit_code) == exit_code # 0

\* mutant: the exit code of the rename-to-staging command is not looked at
prepare_failed_ignored(exit_code) == FALSE

\* _prepare: if exit_code != 0: raise
prepare_failed(exit_code) == exit_code # 0

\* ----------------------------------------------------------- local files
\* mutant: the existence test is left out
get_local_cache_file_unchecked(l, cache_name) == get_local_cache_archive_path(cache_name)

\* CacheRestore._get_local_cache_file: the archive path, or <<>> for None
get_local_cache_file(l, cache_name) ==
    IF ~l[get_local_cache_archive_path(cache_name)].exists THEN <<>>
    ELSE get_local_cache_archive_path(cache_name)

\* mutant: the stream is written straight to the archive path of the name
NamedTemporaryFile_canonical(l) == {get_local_cache_archive_path(cache_names[idx])}

\* NamedTemporaryFile(dir=local cache directory): names not in use
NamedTemporaryFile(l) == {t \in TempNames : ~l[t].exists}

\* mutant: the temporary file is left behind
unlink_skipped(l, path) == l

unlink(l, path) == [l EXCEPT ![path] = NoFile]

rename(l, src, dst) == [l EXCEPT ![dst] = l[src], ![src] = NoFile]

\* f.write(chunk) of the next chunk of archive a
write_chunk(l, path, a) ==
    [l EXCEPT ![path] = [exists |-> TRUE, top |-> a.top, body |-> a.body,
                         written |-> l[path].written + 1]]

\* mutant: the handler re-raises after cleaning up
download_except_reraise(l, path) == [local |-> unlink(l, path), raised |-> TRUE]

\* except Exception: log, os.unlink(f.name), return
download_except(l, path) == [local |-> unlink(l, path), raised |-> FALSE]

\* ----------------------------------------------------------- bookkeeping
Name == cache_names[idx]
\* a call made for the current name, and whether it reported success
Called(call, ok) == [pos |-> idx, name |-> Name, call |-> call, ok |-> ok]
Entry(call) == Called(call, TRUE)
NoPre == [began |-> FALSE, defined |-> FALSE, file |-> NoFile, src |-> Absent, stage |-> Absent]
Snapshot ==
    [began |-> TRUE,
     defined |-> Name \in DOMAIN cache_definitions,
     file |-> local[get_local_cache_archive_path(Name)],
     src |-> IF Name \in DOMAIN cache_definitions
             THEN fs[sanitize_remote_path(cache_definitions[Name])] ELSE Absent,
     stage |-> fs[get_remote_temp_directory(Name)]]

\* the current name's restore/save ends with `outcome`
EndName(outcome, raised) ==
    LET nx == IF op = "upload" THEN upload_loop(raised, idx) ELSE download_loop(raised, idx)
    IN /\ result' = [result EXCEPT ![idx] = outcome]
       /\ idx' = nx.idx
       /\ status' = nx.status
       /\ pc' = "loop"

AtLoop == status = "running" /\ pc = "loop" /\ idx <= Len(cache_names)
NameLists == UNION {[1..k -> CacheNames] : k \in 1..MaxNames}

\* no DockerCacheSave is running
NoExport == <<>>

\* The archive of a name was written by a save of this model or was there
\* from the start.  `src` is what the source directory held when that save
\* began, `here` whether it ran in the container at hand.
NotSaved == [n \in CacheNames |-> [done |-> FALSE, src |-> Absent, here |-> FALSE]]
SavedFrom(src) == [done |-> TRUE, src |-> src, here |-> TRUE]

\* no document is being parsed
NotParsed == [done |-> FALSE, ok |-> FALSE, msg |-> "", pipeline |-> <<>>]
NothingToParse == doc = <<>> /\ parsed = NotParsed

\* ------------------------------------------------------------------- Init
Init ==
    /\ cache_definitions \in DefinitionChoices
    /\ fs \in [RemotePaths -> {Absent, <<"d2">>}]
    /\ \A p \in RemotePaths \ Targets(DefinitionChoices) : fs[p] = Absent
    /\ local \in [LocalPaths -> {NoFile} \cup {ArchiveFile(n, <<"d1">>) : n \in CacheNames}]
    /\ \A t \in TempNames : local[t] = NoFile
    /\ \A n \in CacheNames :
          LET f == local[get_local_cache_archive_path(n)]
          IN f.exists => (n # "docker" /\ f.top = n)
    /\ op = "none" /\ cache_names = <<>> /\ idx = 1 /\ pc = "loop"
    /\ status = "idle" /\ log = <<>> /\ result = <<>> /\ pre = <<>>
    /\ saved = NotSaved
    /\ tmp = <<>> /\ stream = NoStream
    /\ calls = 0
    /\ procs = <<>> /\ start = <<>> /\ overlap = FALSE
    /\ NothingToParse /\ docker = NoExport

\* ---------------------------------------------------------------- actions
Begin(o, names) ==
    /\ status # "running" /\ calls < MaxCalls
    /\ op' = o /\ cache_names' = names /\ idx' = 1 /\ pc' = "loop"
    /\ status' = "running" /\ log' = <<>>
    /\ result' = [i \in 1..Len(names) |-> "pending"]
    /\ pre' = [i \in 1..Len(names) |-> NoPre]
    /\ calls' = calls + 1
    /\ UNCHANGED saved
    /\ UNCHANGED others
    /\ UNCHANGED <<cache_definitions, fs, local, tmp, stream>>

\* CacheManager.upload(cache_names)
Upload == \E names \in NameLists : Begin("upload", names)

\* CacheManager.download(cache_names)
Download == \E names \in NameLists : Begin("download", names)

\* the loop of upload/download has run off the end of the list
Return ==
    /\ status = "running" /\ pc = "loop" /\ idx > Len(cache_names)
    /\ status' = "returned"
    /\ UNCHANGED saved
    /\ UNCHANGED others
    /\ UNCHANGED <<cache_definitions, fs, local, op, cache_names, idx, pc,
                   log, result, pre, tmp, stream, calls>>

\* NullCacheRestore.restore / NullCacheSave.save
Ignore ==
    /\ AtLoop
    /\ \/ op = "upload" /\ CacheRestoreFactory_get(Name) = "NullCacheRestore"
       \/ op = "download" /\ CacheSaveFactory_get(Name) = "NullCacheSave"
    /\ pre' = [pre EXCEPT ![idx] = Snapshot]
    /\ EndName("ignored", FALSE)
    /\ UNCHANGED saved
    /\ UNCHANGED others
    /\ UNCHANGED <<cache_definitions, fs, local, op, cache_names, log, tmp, stream, calls>>

\* CacheRestore.restore up to the call of _upload_cache
Restore ==
    /\ AtLoop /\ op = "upload" /\ CacheRestoreFactory_get(Name) = "CacheRestore"
    /\ pre' = [pre EXCEPT ![idx] = Snapshot]
    /\ IF get_local_cache_file(local, Name) = <<>>
       THEN EndName("miss", FALSE)
       ELSE pc' = "upload_cache" /\ UNCHANGED <<idx, status, result>>
    /\ UNCHANGED saved
    /\ UNCHANGED others
    /\ UNCHANGED <<cache_definitions, fs, local, op, cache_names, log, tmp, stream, calls>>

\* CacheRestore._upload_cache: the staging-clear command
UploadPrepare ==
    /\ status = "running" /\ pc = "upload_cache"
    /\ \E ok \in BOOLEAN :
          LET r == prepare_cache_dir_cmd(fs, Name, ok)
          IN /\ fs' = r.fs
             /\ log' = Append(log, Called("run_command", r.exit = 0))
             /\ IF upload_prepare_failed(r.exit)
                THEN EndName("raised_command", TRUE)
                ELSE pc' = "put_archive" /\ UNCHANGED <<idx, status, result>>
    /\ UNCHANGED saved
    /\ UNCHANGED others
    /\ UNCHANGED <<cache_definitions, local, op, cache_names, pre, tmp, stream, calls>>

\* CacheRestore._upload_cache: put_archive of the local archive
UploadPut ==
    /\ status = "running" /\ pc = "put_archive"
    /\ \E success \in BOOLEAN :
          /\ log' = Append(log, Called("put_archive", success))
          /\ fs' = IF success
                   THEN put_archive(fs, dirname(get_remote_temp_directory(Name)),
                                    local[get_local_cache_file(local, Name)])
                   ELSE fs
          /\ IF put_archive_failed(success)
             THEN EndName("raised_put", TRUE)
             ELSE pc' = "restore_cache" /\ UNCHANGED <<idx, status, result>>
    /\ UNCHANGED saved
    /\ UNCHANGED others
    /\ UNCHANGED <<cache_definitions, local, op, cache_names, pre, tmp, stream, calls>>

\* CacheRestore._restore_cache
RestoreCache ==
    /\ status = "running" /\ pc = "restore_cache"
    /\ IF ~cache_definition(cache_definitions, Name).found
       THEN EndName("raised_key", TRUE) /\ UNCHANGED <<fs, log>>
       ELSE \E ok \in BOOLEAN :
               LET r == restore_cache_script(fs, get_remote_temp_directory(Name),
                            sanitize_remote_path(cache_definition(cache_definitions, Name).path),
                            ok)
               IN /\ fs' = r.fs
                  /\ log' = Append(log, Called("run_command", r.exit = 0))
                  /\ IF restore_failed(r.exit) THEN EndName("raised_command", TRUE)
                                              ELSE EndName("restored", FALSE)
    /\ UNCHANGED saved
    /\ UNCHANGED others
    /\ UNCHANGED <<cache_definitions, local, op, cache_names, pre, tmp, stream, calls>>

\* CacheSave.save: _prepare
SavePrepare ==
    /\ AtLoop /\ op = "download" /\ CacheSaveFactory_get(Name) = "CacheSave"
    /\ pre' = [pre EXCEPT ![idx] = Snapshot]
    /\ IF ~cache_definition(cache_definitions, Name).found
       THEN EndName("raised_key", TRUE) /\ UNCHANGED <<fs, log>>
       ELSE \E ok \in BOOLEAN :
               LET r == prepare_cache_cmd(fs,
                            sanitize_remote_path(cache_definition(cache_definitions, Name).path),
                            get_remote_temp_directory(Name), ok)
               IN /\ fs' = r.fs
                  /\ log' = Append(log, Called("run_command", r.exit = 0))
                  /\ IF prepare_failed(r.exit)
                     THEN EndName("raised_command", TRUE)
                     ELSE pc' = "download" /\ UNCHANGED <<idx, status, result>>
    /\ UNCHANGED saved
    /\ UNCHANGED others
    /\ UNCHANGED <<cache_definitions, local, op, cache_names, tmp, stream, calls>>

\* CacheSave._download: path_exists, then the temporary file is opened
DownloadExists ==
    /\ status = "running" /\ pc = "download"
    /\ IF ~path_exists(fs, get_remote_temp_directory(Name))
       THEN /\ log' = Append(log, Entry("path_exists"))
            /\ EndName("not_found", FALSE)
            /\ UNCHANGED <<local, tmp>>
       ELSE \E t \in NamedTemporaryFile(local) :
               /\ log' = log \o <<Entry("path_exists"), Entry("create_temp")>>
               /\ local' = [local EXCEPT ![t] = EmptyFile]
               /\ tmp' = t
               /\ pc' = "get_archive" /\ UNCHANGED <<idx, status, result>>
    /\ UNCHANGED saved
    /\ UNCHANGED others
    /\ UNCHANGED <<cache_definitions, fs, op, cache_names, pre, stream, calls>>

\* CacheSave._download: get_archive, which may raise
DownloadGet ==
    /\ status = "running" /\ pc = "get_archive"
    /\ \E ok \in BOOLEAN :
          IF ok
          THEN /\ stream' = get_archive(fs, get_remote_temp_directory(Name))
               /\ log' = Append(log, Called("get_archive", TRUE))
               /\ pc' = "stream" /\ UNCHANGED <<idx, status, result, local, tmp>>
          ELSE LET h == download_except(local, tmp)
               IN /\ local' = h.local
                  /\ log' = log \o <<Called("get_archive", FALSE), Entry("unlink")>>
                  /\ tmp' = <<>>
                  /\ EndName("stream_failed", h.raised)
                  /\ UNCHANGED stream
    /\ UNCHANGED saved
    /\ UNCHANGED others
    /\ UNCHANGED <<cache_definitions, fs, op, cache_names, pre, calls>>

\* CacheSave._download: one turn of `for chunk in data`, which may raise
DownloadChunk ==
    /\ status = "running" /\ pc = "stream" /\ local[tmp].written < NChunks
    /\ \E ok \in BOOLEAN :
          IF ok
          THEN /\ local' = write_chunk(local, tmp, stream)
               /\ log' = Append(log, Entry("write"))
               /\ UNCHANGED <<idx, status, result, pc, tmp>>
          ELSE LET h == download_except(local, tmp)
               IN /\ local' = h.local
                  /\ log' = Append(log, Entry("unlink"))
                  /\ tmp' = <<>>
                  /\ EndName("stream_failed", h.raised)
    /\ UNCHANGED saved
    /\ UNCHANGED others
    /\ UNCHANGED <<cache_definitions, fs, op, cache_names, pre, stream, calls>>

\* CacheSave._download: the stream is exhausted, os.rename(f.name, dst)
DownloadRename ==
    /\ status = "running" /\ pc = "stream" /\ local[tmp].written = NChunks
    /\ local' = rename(local, tmp, get_local_cache_archive_path(Name))
    /\ log' = Append(log, Entry("rename"))
    /\ tmp' = <<>>
    /\ EndName("saved", FALSE)
    /\ saved' = [saved EXCEPT ![Name] = SavedFrom(pre[idx].src)]
    /\ UNCHANGED others
    /\ UNCHANGED <<cache_definitions, fs, op, cache_names, pre, stream, calls>>

\* between two calls the step's script (re)creates a cache directory
RunScript ==
    /\ status \in {"idle", "returned"} /\ calls < MaxCalls
    /\ \E n \in DOMAIN cache_definitions :
          /\ fs[sanitize_remote_path(cache_definitions[n])] # <<"d3">>
          /\ fs' = [fs EXCEPT ![sanitize_remote_path(cache_definitions[n])] = <<"d3">>]
    /\ UNCHANGED saved
    /\ UNCHANGED others
    /\ UNCHANGED <<cache_definitions, local, op, cache_names, idx, pc, status,
                   log, result, pre, tmp, stream, calls>>

Next ==
    \/ Upload \/ Download \/ Return \/ Ignore
    \/ Restore \/ UploadPrepare \/ UploadPut \/ RestoreCache
    \/ SavePrepare \/ DownloadExists \/ DownloadGet \/ DownloadChunk \/ DownloadRename
    \/ RunScript

Spec == Init /\ [][Next]_vars

\* ------------------------------------------- a container used before
\* The CacheManager is constructed on a container in which an earlier save of
\* a defined name may have left its staging directory, and is later given
\* another container.
StagingPaths == {get_remote_temp_directory(n) : n \in DOMAIN cache_definitions}

RoundTripInit ==
    /\ cache_definitions \in DefinitionChoices
    /\ fs \in [RemotePaths -> {Absent, <<"d0">>, <<"d2">>}]
    /\ \A p \in RemotePaths :
          /\ p \in Targets({cache_definitions}) => fs[p] \in {Absent, <<"d2">>}
          /\ p \in StagingPaths => fs[p] \in {Absent, <<"d0">>}
          /\ p \notin Targets({cache_definitions}) \cup StagingPaths => fs[p] = Absent
    /\ local \in [LocalPaths -> {NoFile} \cup {ArchiveFile(n, <<"d1">>) : n \in CacheNames}]
    /\ \A t \in TempNames : local[t] = NoFile
    /\ \A n \in CacheNames :
          LET f == local[get_local_cache_archive_path(n)]
          IN f.exists => (n # "docker" /\ f.top = n)
    /\ op = "none" /\ cache_names = <<>> /\ idx = 1 /\ pc = "loop"
    /\ status = "idle" /\ log = <<>> /\ result = <<>> /\ pre = <<>>
    /\ saved = NotSaved
    /\ tmp = <<>> /\ stream = NoStream
    /\ calls = 0
    /\ procs = <<>> /\ start = <<>> /\ overlap = FALSE
    /\ NothingToParse /\ docker = NoExport

\* after a download the CacheManager is given another container, in which
\* no cache directory exists yet (RunScript may create one); the cache
\* definitions and the local cache directory stay
NewContainer ==
    /\ status = "returned" /\ op = "download" /\ calls < MaxCalls
    /\ fs # [p \in RemotePaths |-> Absent]
    /\ fs' = [p \in RemotePaths |-> Absent]
    /\ saved' = [n \in CacheNames |-> [saved[n] EXCEPT !.here = FALSE]]
    /\ UNCHANGED others
    /\ UNCHANGED <<cache_definitions, local, op, cache_names, idx, pc, status,
                   log, result, pre, tmp, stream, calls>>

RoundTripNext == Next \/ NewContainer

RoundTripSpec == RoundTripInit /\ [][RoundTripNext]_vars

TypeOK ==
    /\ status \in {"idle", "running", "returned", "raised"}
    /\ op \in {"none", "upload", "download"}
    /\ \A p \in LocalPaths : local[p].written \in 0..NChunks

\* ============================================== two concurrent operations
\* Two callers run one generic restore or save each, on the names "pip" and
\* "node", against the same container and local cache directory.  A step is
\* one call on the container, one shell command of a script, or one local
\* file operation.  `fate` is what the environment does to the operation:
\* "fail" makes put_archive return False (restore) or the chunk stream raise
\* after its first chunk (save).
Procs == {1, 2}
Other(p) == 3 - p
World == [fs |-> fs, local |-> local, procs |-> procs]

\* one step of operation p in world w
ConcStep(w, p) ==
    LET me == w.procs[p]
        staging == get_remote_temp_directory(me.name)
        target == sanitize_remote_path(cache_definitions[me.name])
        goto(l) == [w EXCEPT !.procs[p].pc = l]
        end(o) == [w EXCEPT !.procs[p].pc = "done", !.procs[p].out = o]
    IN CASE me.pc = "restore" ->
              IF get_local_cache_file(w.local, me.name) = <<>> THEN end("miss")
              ELSE goto("upload_cache")
         [] me.pc = "upload_cache" ->
              [goto("put_archive") EXCEPT !.fs = prepare_cache_dir_cmd(w.fs, me.name, TRUE).fs]
         [] me.pc = "put_archive" ->
              IF me.fate = "fail" THEN end("raised_put")
              ELSE [goto("rm_target") EXCEPT
                      !.fs = put_archive(w.fs, dirname(staging),
                                         w.local[get_local_cache_file(w.local, me.name)])]
         [] me.pc = "rm_target" ->
              [goto("mv_target") EXCEPT !.fs = RmRf(w.fs, target)]
         [] me.pc = "mv_target" ->
              LET r == Mv(w.fs, staging, target, TRUE)
              IN [end(IF r.exit # 0 THEN "raised_command" ELSE "restored") EXCEPT !.fs = r.fs]
         [] me.pc = "save" ->
              IF w.fs[target] # Absent THEN goto("prepare_mv") ELSE goto("download")
         [] me.pc = "prepare_mv" ->
              LET r == Mv(w.fs, target, staging, TRUE)
              IN IF r.exit # 0 THEN end("raised_command")
                 ELSE [goto("download") EXCEPT !.fs = r.fs]
         [] me.pc = "download" ->
              IF ~path_exists(w.fs, staging) THEN end("not_found")
              ELSE LET t == CHOOSE t \in NamedTemporaryFile(w.local) : TRUE
                   IN [goto("get_archive") EXCEPT !.local[t] = EmptyFile, !.procs[p].tmp = t]
         [] me.pc = "get_archive" ->
              [goto("stream") EXCEPT !.procs[p].stream = get_archive(w.fs, staging)]
         [] me.pc = "stream" ->
              IF w.local[me.tmp].written = NChunks
              THEN [end("saved") EXCEPT
                      !.local = rename(w.local, me.tmp, get_local_cache_archive_path(me.name))]
              ELSE IF me.fate = "fail" /\ w.local[me.tmp].written >= 1
              THEN [end("stream_failed") EXCEPT !.local = download_except(w.local, me.tmp).local]
              ELSE [w EXCEPT !.local = write_chunk(w.local, me.tmp, me.stream)]
         [] OTHER -> w

\* operation p run to its end with nothing in between
RECURSIVE RunAlone(_, _)
RunAlone(w, p) == IF w.procs[p].pc = "done" THEN w ELSE RunAlone(ConcStep(w, p), p)

\* the directories and files left by running p, then q
Sequential(p, q) ==
    LET w == RunAlone(RunAlone(start, p), q) IN [fs |-> w.fs, local |-> w.local]

ConcInit ==
    /\ cache_definitions \in ConcurrentDefinitionChoices
    /\ fs \in [RemotePaths -> {Absent, <<"d2">>}]
    /\ \A p \in RemotePaths \ Targets({cache_definitions}) : fs[p] = Absent
    /\ local \in [LocalPaths -> {NoFile} \cup {ArchiveFile(n, <<"d1">>) : n \in CacheNames}]
    /\ \A t \in TempNames : local[t] = NoFile
    /\ \A n \in CacheNames :
          LET f == local[get_local_cache_archive_path(n)]
          IN f.exists => (n # "docker" /\ f.top = n)
    /\ \E k1, k2 \in {"restore", "save"}, f1, f2 \in {"ok", "fail"} :
          procs = [p \in Procs |->
                     [kind |-> IF p = 1 THEN k1 ELSE k2,
                      name |-> IF p = 1 THEN "pip" ELSE "node",
                      pc |-> IF p = 1 THEN k1 ELSE k2,
                      fate |-> IF p = 1 THEN f1 ELSE f2,
                      tmp |-> <<>>, stream |-> NoStream, out |-> "running"]]
    /\ start = World
    /\ overlap = FALSE
    /\ op = "none" /\ cache_names = <<>> /\ idx = 1 /\ pc = "loop"
    /\ status = "idle" /\ log = <<>> /\ result = <<>> /\ pre = <<>>
    /\ saved = NotSaved
    /\ tmp = <<>> /\ stream = NoStream /\ calls = 0
    /\ NothingToParse /\ docker = NoExport

Step(p) ==
    /\ procs[p].pc # "done"
    /\ LET w == ConcStep(World, p)
       IN fs' = w.fs /\ local' = w.local /\ procs' = w.procs
    /\ overlap' = (overlap \/ procs[Other(p)].pc \notin {"restore", "save", "done"})
    /\ UNCHANGED <<cache_definitions, start>>
    /\ UNCHANGED manager
    /\ UNCHANGED docker
    /\ UNCHANGED parsing

\* a step of the generic restore of operation p
RestoreStep(p) == procs[p].kind = "restore" /\ Step(p)

\* a step of the generic save of operation p
SaveStep(p) == procs[p].kind = "save" /\ Step(p)

ConcNext == \E p \in Procs : RestoreStep(p) \/ SaveStep(p)

ConcSpec == ConcInit /\ [][ConcNext]_vars

\* ==================================================== the pipeline parser
\* Pipeline.parse_obj on a list of items, each carrying one of the keys
\* "variables", "step" and "parallel".
ItemKeys == {"variables", "step", "parallel"}
Documents == UNION {[1..k -> [key : ItemKeys]] : k \in 0..MaxItems}

VariablesNotFirst == "'variables' can only be the first element of the list"

\* an item becomes the model whose key it carries
parse_item(item) ==
    [type |-> CASE item.key = "variables" -> "Variables"
                [] item.key = "step" -> "StepWrapper"
                [] item.key = "parallel" -> "ParallelStep"]

\* mutant: the rule looks from the third element on
variables_misplaced_from_third(v) ==
    \E i \in 1..Len(v) : i > 2 /\ v[i].type = "Variables"

\* the validator of Pipeline: a Variables element anywhere but first
variables_misplaced(v) ==
    \E i \in 1..Len(v) : i > 1 /\ v[i].type = "Variables"

Pipeline_parse_obj(d) ==
    LET v == [i \in 1..Len(d) |-> parse_item(d[i])]
    IN IF variables_misplaced(v)
       THEN [done |-> TRUE, ok |-> FALSE, msg |-> VariablesNotFirst, pipeline |-> <<>>]
       ELSE [done |-> TRUE, ok |-> TRUE, msg |-> "", pipeline |-> v]

ParseInit ==
    /\ doc \in Documents /\ parsed = NotParsed /\ docker = NoExport
    /\ cache_definitions \in DefinitionChoices
    /\ fs = [p \in RemotePaths |-> Absent]
    /\ local = [p \in LocalPaths |-> NoFile]
    /\ op = "none" /\ cache_names = <<>> /\ idx = 1 /\ pc = "loop"
    /\ status = "idle" /\ log = <<>> /\ result = <<>> /\ pre = <<>>
    /\ saved = NotSaved
    /\ tmp = <<>> /\ stream = NoStream /\ calls = 0
    /\ procs = <<>> /\ start = <<>> /\ overlap = FALSE

\* Pipeline.parse_obj(spec)
ParsePipeline ==
    /\ ~parsed.done
    /\ parsed' = Pipeline_parse_obj(doc)
    /\ UNCHANGED <<doc, procs, start, overlap>>
    /\ UNCHANGED storage
    /\ UNCHANGED manager
    /\ UNCHANGED docker

ParseNext == ParsePipeline

ParseSpec == ParseInit /\ [][ParseNext]_vars

\* ------------------------------------------------------------ Image model
\* Variables that stay at rest while a document is parsed.
AtRest ==
    /\ cache_definitions \in DefinitionChoices
    /\ fs = [p \in RemotePaths |-> Absent]
    /\ local = [p \in LocalPaths |-> NoFile]
    /\ op = "none" /\ cache_names = <<>> /\ idx = 1 /\ pc = "loop"
    /\ status = "idle" /\ log = <<>> /\ result = <<>> /\ pre = <<>>
    /\ saved = NotSaved
    /\ tmp = <<>> /\ stream = NoStream /\ calls = 0
    /\ procs = <<>> /\ start = <<>> /\ overlap = FALSE

\* A string is a sequence of parts: literal text, or a token $NAME (braces
\* FALSE) or ${NAME} (braces TRUE).  No modelled string is empty; None is a
\* field that carries no string.
Lit(t) == [kind |-> "lit", text |-> t, braces |-> FALSE]
Tok(n, b) == [kind |-> "tok", text |-> n, braces |-> b]
None == <<>>
Strings == { <<Lit("alpine:latest")>>,
             <<Tok("REPO_USERNAME", FALSE)>>,
             <<Lit("repo/"), Tok("IMAGE_NAME", TRUE)>> }
VarNames == {"IMAGE_NAME", "REPO_USERNAME"}
EnvVars == { [n \in D |-> IF n = "IMAGE_NAME" THEN "alpine" ELSE "my-username"] :
             D \in SUBSET VarNames }

\* the aws mapping of an Image document; a key it does not carry is None
AwsKeys == {"access-key", "secret-key", "oidc-role"}
NoAwsDocument == [k \in AwsKeys |-> None]
AwsDocuments ==
    {NoAwsDocument}
    \cup { [k \in AwsKeys |-> CASE k = "access-key" -> a [] k = "secret-key" -> b [] OTHER -> o] :
           a \in Strings, b \in Strings, o \in {None, <<Lit("some-role")>>} }
    \cup { [k \in AwsKeys |-> IF k = "oidc-role" THEN <<Lit("some-role")>> ELSE None] }

ImageDocuments ==
    [name : Strings, username : Strings \cup {None}, password : Strings \cup {None},
     email : Strings \cup {None}, aws : AwsDocuments]

OidcNotSupported == "aws oidc-role not supported"

\* Image.aws when the document has no aws mapping
NoAws == [given |-> FALSE, access_key_id |-> None, secret_access_key |-> None]
AwsCredentials(a) ==
    [given |-> TRUE, access_key_id |-> a["access-key"], secret_access_key |-> a["secret-key"]]
NoImage == [name |-> None, username |-> None, password |-> None, email |-> None, aws |-> NoAws]

\* mutant: the validator of the aws mapping does not look for oidc-role
aws_oidc_role_given_ignored(a) == FALSE

\* the validator of Image: the aws mapping carries oidc-role
aws_oidc_role_given(a) == a["oidc-role"] # None

Image_parse_obj(d) ==
    IF aws_oidc_role_given(d.aws)
    THEN [done |-> TRUE, ok |-> FALSE, msg |-> OidcNotSupported,
          image |-> NoImage, expanded |-> FALSE]
    ELSE [done |-> TRUE, ok |-> TRUE, msg |-> "",
          image |-> [name |-> d.name, username |-> d.username,
                     password |-> d.password, email |-> d.email,
                     aws |-> IF d.aws = NoAwsDocument THEN NoAws ELSE AwsCredentials(d.aws)],
          expanded |-> FALSE]

\* a token whose name the mapping has becomes the mapped text; any other part
\* stays as it is
expand_part(p, env) ==
    IF p.kind = "tok" /\ p.text \in DOMAIN env THEN Lit(env[p.text]) ELSE p
expand_env_vars(s, env) == [i \in 1..Len(s) |-> expand_part(s[i], env)]

\* mutant: the name is expanded like every other field
Image_expand_env_vars_with_name(img, env) ==
    [name |-> expand_env_vars(img.name, env),
     username |-> expand_env_vars(img.username, env),
     password |-> expand_env_vars(img.password, env),
     email |-> expand_env_vars(img.email, env),
     aws |-> [img.aws EXCEPT !.access_key_id = expand_env_vars(@, env),
                             !.secret_access_key = expand_env_vars(@, env)]]

\* Image.expand_env_vars(variables): every string field but name
Image_expand_env_vars(img, env) ==
    [name |-> img.name,
     username |-> expand_env_vars(img.username, env),
     password |-> expand_env_vars(img.password, env),
     email |-> expand_env_vars(img.email, env),
     aws |-> [img.aws EXCEPT !.access_key_id = expand_env_vars(@, env),
                             !.secret_access_key = expand_env_vars(@, env)]]

ImageInit ==
    /\ doc \in [value : ImageDocuments, env : EnvVars]
    /\ parsed = NotParsed /\ docker = NoExport
    /\ AtRest

\* Image.parse_obj(value)
ParseImage ==
    /\ ~parsed.done
    /\ parsed' = Image_parse_obj(doc.value)
    /\ UNCHANGED <<doc, procs, start, overlap>>
    /\ UNCHANGED storage
    /\ UNCHANGED manager
    /\ UNCHANGED docker

\* image.expand_env_vars(env_vars)
ExpandImage ==
    /\ parsed.done /\ parsed.ok /\ ~parsed.expanded
    /\ parsed' = [parsed EXCEPT !.image = Image_expand_env_vars(@, doc.env),
                                !.expanded = TRUE]
    /\ UNCHANGED <<doc, procs, start, overlap>>
    /\ UNCHANGED storage
    /\ UNCHANGED manager
    /\ UNCHANGED docker

ImageNext == ParseImage \/ ExpandImage

ImageSpec == ImageInit /\ [][ImageNext]_vars

\* ----------------------------------------------- collection-valued fields
\* A value of a document or of a parsed model: a list, a mapping, null, or
\* (in a document only) a key the document does not carry.
List(items) == [kind |-> "list", items |-> items]
Mapping(items) == [kind |-> "mapping", items |-> items]
Null == [kind |-> "null", items |-> <<>>]
Missing == [kind |-> "missing", items |-> <<>>]

ModelKeys ==
    [Definitions |-> {"caches", "services"},
     Step |-> {"script", "caches", "services", "artifacts", "after-script"},
     Pipelines |-> {"default", "branches", "pull-requests", "custom"}]
Models == DOMAIN ModelKeys
Required == [Definitions |-> {}, Step |-> {"script"}, Pipelines |-> {}]

\* the kind of collection a field holds
Empty(model) == IF model = "Definitions" THEN Mapping(<<>>) ELSE List(<<>>)
Sample(model, key) ==
    IF model = "Definitions" THEN Mapping(<<<<key, "x">>>>) ELSE List(<<key>>)

\* a document gives each key an empty collection, a non-empty one, or nothing
CollectionDocuments ==
    UNION { [model : {m}, value : [ModelKeys[m] -> {Missing, Empty(m)}
                                   \cup {Sample(m, k) : k \in ModelKeys[m]}]] :
            m \in Models }

FieldRequired == "field required"

\* mutant: a field left out defaults to null
default_null(model, key) == Null

\* the default of a collection-valued field: default_factory of its kind
default(model, key) == Empty(model)

parse_obj(d) ==
    IF \E k \in Required[d.model] : d.value[k] = Missing
    THEN [done |-> TRUE, ok |-> FALSE, msg |-> FieldRequired, model |-> <<>>]
    ELSE [done |-> TRUE, ok |-> TRUE, msg |-> "",
          model |-> [k \in ModelKeys[d.model] |->
                        IF d.value[k] = Missing THEN default(d.model, k)
                                                ELSE d.value[k]]]

DefaultsInit ==
    /\ doc \in CollectionDocuments
    /\ parsed = NotParsed /\ docker = NoExport
    /\ AtRest

\* Definitions.parse_obj(value)
ParseDefinitions ==
    /\ ~parsed.done /\ doc.model = "Definitions"
    /\ parsed' = parse_obj(doc)
    /\ UNCHANGED <<doc, procs, start, overlap>>
    /\ UNCHANGED storage
    /\ UNCHANGED manager
    /\ UNCHANGED docker

\* Step.parse_obj(value)
ParseStep ==
    /\ ~parsed.done /\ doc.model = "Step"
    /\ parsed' = parse_obj(doc)
    /\ UNCHANGED <<doc, procs, start, overlap>>
    /\ UNCHANGED storage
    /\ UNCHANGED manager
    /\ UNCHANGED docker

\* Pipelines.parse_obj(value)
ParsePipelines ==
    /\ ~parsed.done /\ doc.model = "Pipelines"
    /\ parsed' = parse_obj(doc)
    /\ UNCHANGED <<doc, procs, start, overlap>>
    /\ UNCHANGED storage
    /\ UNCHANGED manager
    /\ UNCHANGED docker

DefaultsNext == ParseDefinitions \/ ParseStep \/ ParsePipelines

DefaultsSpec == DefaultsInit /\ [][DefaultsNext]_vars

\* -------------------------------------------------- container-image save
\* A tag or an id is a sequence of pieces: runs of letters and digits, and
\* the single characters between them.  No two separators are adjacent and
\* none is first or last, so slugify has no run to collapse or strip.
Separators == {"/", ":", "_", "."}

\* slugify(text): what is not a letter, a digit or "-" becomes "-"
slugify(text) == [i \in 1..Len(text) |-> IF text[i] \in Separators THEN "-" ELSE text[i]]

\* s.split(":")[1]: what stands between the first ":" and the next
split_1(s) ==
    LET colons == {i \in 1..Len(s) : s[i] = ":"}
        first == CHOOSE i \in colons : \A j \in colons : i <= j
        rest == {i \in colons : i > first}
        stop == IF rest = {} THEN Len(s) + 1 ELSE CHOOSE i \in rest : \A j \in rest : i <= j
    IN SubSeq(s, first + 1, stop - 1)

\* the images of the runtime's image store
DockerImages ==
    { [id |-> "web_v1", tags |-> << <<"app", "_", "web", ":", "1">> >>,
       short_id |-> <<"sha256", ":", "0a1b">>],
      [id |-> "web_v2", tags |-> << <<"app", "-", "web", ":", "1">> >>,
       short_id |-> <<"sha256", ":", "2c3d">>],
      [id |-> "untagged", tags |-> <<>>,
       short_id |-> <<"sha256", ":", "4e5f">>],
      [id |-> "alpine", tags |-> << <<"alpine", ":", "3">>, <<"alpine", ":", "latest">> >>,
       short_id |-> <<"sha256", ":", "6a7b">>] }

\* name = slugify(img.tags[0]) if img.tags else img.short_id.split(":")[1]
archive_name(img) == IF img.tags # <<>> THEN slugify(img.tags[1]) ELSE split_1(img.short_id)

ArchiveNames == {archive_name(img) : img \in DockerImages}
ImageLists ==
    {l \in UNION {[1..k -> DockerImages] : k \in 0..MaxImages} :
        \A i, j \in 1..Len(l) : i # j => l[i] # l[j]}

\* files of the local cache directory "docker"
NoArchive == [exists |-> FALSE, image |-> "", written |-> 0]
OldArchive == [exists |-> TRUE, image |-> "old", written |-> NChunks]
ImageArchive(img) == [exists |-> TRUE, image |-> img.id, written |-> NChunks]

\* except Exception: os.unlink(f.name); return
save_image_except(d) ==
    [d EXCEPT !.tmp = NoArchive,
              !.result[d.idx] = "failed",
              !.idx = d.idx + 1, !.pc = "loop"]

DockerSaveInit ==
    /\ \E images \in ImageLists, dir \in BOOLEAN,
          files \in [ArchiveNames -> {NoArchive, OldArchive}] :
          /\ ~dir => \A n \in ArchiveNames : files[n] = NoArchive
          /\ docker = [images |-> images, idx |-> 1, pc |-> "save", dir |-> dir,
                       files |-> files, old |-> files, tmp |-> NoArchive,
                       result |-> [i \in 1..Len(images) |-> "pending"]]
    /\ doc = <<>> /\ parsed = NotParsed
    /\ AtRest

DockerUnchanged ==
    /\ UNCHANGED <<doc, parsed, procs, start, overlap>>
    /\ UNCHANGED storage
    /\ UNCHANGED manager

\* DockerCacheSave.save up to the loop: makedirs, client.images.list()
DockerSave ==
    /\ docker # NoExport /\ docker.pc = "save"
    /\ docker' = [docker EXCEPT !.dir = TRUE, !.pc = "loop"]
    /\ DockerUnchanged

\* _save_image: NamedTemporaryFile(dir=..., delete=False)
SaveImageOpen ==
    /\ docker # NoExport /\ docker.pc = "loop" /\ docker.idx <= Len(docker.images)
    /\ docker' = [docker EXCEPT !.pc = "stream",
                                !.tmp = [exists |-> TRUE,
                                         image |-> docker.images[docker.idx].id,
                                         written |-> 0]]
    /\ DockerUnchanged

\* _save_image: one chunk of image.save(named=True) is written
SaveImageChunk ==
    /\ docker # NoExport /\ docker.pc = "stream" /\ docker.tmp.written < NChunks
    /\ docker' = [docker EXCEPT !.tmp.written = @ + 1]
    /\ DockerUnchanged

\* _save_image: image.save or the chunk stream raises
SaveImageRaise ==
    /\ docker # NoExport /\ docker.pc = "stream"
    /\ docker' = save_image_except(docker)
    /\ DockerUnchanged

\* _save_image: os.rename(f.name, dst)
SaveImageRename ==
    /\ docker # NoExport /\ docker.pc = "stream" /\ docker.tmp.written = NChunks
    /\ docker' = [docker EXCEPT !.files[archive_name(docker.images[docker.idx])] = docker.tmp,
                                !.tmp = NoArchive,
                                !.result[docker.idx] = "saved",
                                !.idx = docker.idx + 1, !.pc = "loop"]
    /\ DockerUnchanged

\* the loop over images has run off the end of the list
DockerSaveReturn ==
    /\ docker # NoExport /\ docker.pc = "loop" /\ docker.idx > Len(docker.images)
    /\ docker' = [docker EXCEPT !.pc = "done"]
    /\ DockerUnchanged

DockerSaveNext ==
    \/ DockerSave \/ SaveImageOpen \/ SaveImageChunk
    \/ SaveImageRaise \/ SaveImageRename \/ DockerSaveReturn

DockerSaveSpec == DockerSaveInit /\ [][DockerSaveNext]_vars

\* ================================================================= claims
Positions == 1..Len(cache_names)
Raised(i) == result[i] \in {"raised_command", "raised_put", "raised_key"}
CallsAt(i) == {log[k].call : k \in {k \in 1..Len(log) : log[k].pos = i}}
ArchiveOf(i) == local[get_local_cache_archive_path(cache_names[i])]
NoLaterBegan(i) == \A j \in Positions : j > i => ~pre[j].began
TempFiles == {t \in TempNames : local[t].exists}

\* C1: upload is fail-fast.  When the restore at position i raises, upload has
\* raised at i, and no container call or restore was made for a later position.
C1_UploadFailFast ==
    op = "upload" =>
        \A i \in Positions : Raised(i) =>
            /\ status = "raised" /\ idx = i
            /\ \A k \in 1..Len(log) : log[k].pos <= i
            /\ \A j \in Positions : j > i => result[j] = "pending" /\ ~pre[j].began

\* a restore raised while a later name with a local archive was still to come
C1_Witness ==
    /\ op = "upload" /\ status = "raised" /\ idx < Len(cache_names)
    /\ Raised(idx) /\ CallsAt(idx) # {}
    /\ CacheRestoreFactory_get(cache_names[idx + 1]) = "CacheRestore"
    /\ ArchiveOf(idx + 1).exists

\* C2: download isolates a streaming failure.  When get_archive or the chunk
\* stream raised for position i, the temporary file of that save is gone,
\* download did not raise at i, the loop went on to position i + 1, and a
\* download that returned has processed every later position.
C2_StreamFailureIsolated ==
    op = "download" =>
        \A i \in Positions : result[i] = "stream_failed" =>
            /\ idx > i
            /\ \A t \in TempFiles : status = "running" /\ pc \in {"get_archive", "stream"} /\ t = tmp
            /\ (i < Len(cache_names) /\ idx = i + 1 /\ status # "running") => pre[i + 1].began
            /\ status = "returned" => \A j \in Positions : j > i => result[j] # "pending"

\* a save failed while streaming and the next name was saved all the same
C2_Witness ==
    /\ op = "download" /\ status = "returned"
    /\ \E i \in Positions : /\ i < Len(cache_names)
                            /\ result[i] = "stream_failed"
                            /\ "write" \in CallsAt(i)
                            /\ result[i + 1] = "saved"

\* C3 as stated: no failed remote command and no failed transfer of a save
\* makes download raise.
C3_SaveNeverRaises ==
    op = "download" =>
        \A i \in Positions : result[i] \in {"raised_command", "stream_failed"} =>
            ~(status = "raised" /\ idx = i)

\* C3 amended: a failed archive transfer (get_archive, the chunk stream) is
\* skipped and download goes on; a non-zero exit of the rename-to-staging
\* command raises out of download, and no later name is processed.
C3_SaveBestEffortForTransfers ==
    op = "download" =>
        \A i \in Positions :
            /\ result[i] = "stream_failed" => ~(status = "raised" /\ idx = i)
            /\ result[i] = "raised_command" =>
                  /\ status = "raised" /\ idx = i
                  /\ CallsAt(i) = {"run_command"}
                  /\ \A j \in Positions : j > i => result[j] = "pending" /\ CallsAt(j) = {}

\* the rename-to-staging command failed with a name still to be saved
C3_Witness ==
    /\ op = "download" /\ status = "raised" /\ idx < Len(cache_names)
    /\ result[idx] = "raised_command"
    /\ CacheSaveFactory_get(cache_names[idx + 1]) = "CacheSave"

\* C4: the archive path of a name never shows a partial archive.  Every file
\* at an archive path is complete; while a save is under way the path holds
\* what it held when the save began; after the rename it holds the complete
\* archive that was streamed.
C4_CanonicalPathAtomic ==
    /\ \A n \in CacheNames :
          LET f == local[get_local_cache_archive_path(n)] IN f.exists => Complete(f)
    /\ op = "download" =>
          /\ (status = "running" /\ idx \in Positions /\ pre[idx].began) =>
                ArchiveOf(idx) = pre[idx].file
          /\ \A i \in Positions :
                (result[i] = "saved" /\ \A j \in Positions : j > i => result[j] # "saved") =>
                    ArchiveOf(i) = ArchiveFile(stream.top, stream.body)

\* a save replaced an earlier archive by a different one
C4_Witness ==
    /\ op = "download"
    /\ \E i \in Positions : /\ result[i] = "saved"
                            /\ pre[i].file.exists
                            /\ ArchiveOf(i) # pre[i].file

\* C5 as stated: after a save failed mid-stream there is no file at the
\* archive path of the name and no temporary file.
C5_NoFileAfterFailedSave ==
    op = "download" =>
        \A i \in Positions : (result[i] = "stream_failed" /\ NoLaterBegan(i)) =>
            ~ArchiveOf(i).exists /\ TempFiles = {}

\* C5 amended: after a save failed mid-stream the archive path of the name
\* holds what it held when the save began (nothing, or the earlier complete
\* archive) and no temporary file is left.
C5_FailedSaveLeavesNoPartial ==
    op = "download" =>
        \A i \in Positions : (result[i] = "stream_failed" /\ NoLaterBegan(i)) =>
            ArchiveOf(i) = pre[i].file /\ TempFiles = {}

\* a save failed after a chunk was written, with an earlier archive present
C5_Witness ==
    /\ op = "download"
    /\ \E i \in Positions : /\ result[i] = "stream_failed" /\ NoLaterBegan(i)
                            /\ "write" \in CallsAt(i)
                            /\ pre[i].file.exists

\* C6: a generic restore of a name without a local archive makes no call on
\* the container and ends as a miss, without raising.
C6_RestoreMissIsSilent ==
    op = "upload" =>
        \A i \in Positions :
            (/\ pre[i].began
             /\ CacheRestoreFactory_get(cache_names[i]) = "CacheRestore"
             /\ ~pre[i].file.exists) =>
                /\ result[i] = "miss"
                /\ CallsAt(i) = {}
                /\ idx > i

\* a restore missed and upload returned
C6_Witness ==
    /\ op = "upload" /\ status = "returned"
    /\ \E i \in Positions : result[i] = "miss" /\ ~pre[i].file.exists

\* C7: a generic save of a defined name with neither a source directory nor
\* a staging directory creates no temporary file, leaves the archive path
\* and the rest of the local cache directory alone, and does not raise.
C7_SaveOfNothingWritesNothing ==
    op = "download" =>
        \A i \in Positions :
            (/\ pre[i].began
             /\ CacheSaveFactory_get(cache_names[i]) = "CacheSave"
             /\ pre[i].defined
             /\ pre[i].src = Absent /\ pre[i].stage = Absent) =>
                /\ result[i] \in {"pending", "not_found"}
                /\ result[i] = "pending" => status = "running" /\ idx = i /\ pc = "download"
                /\ CallsAt(i) \subseteq {"run_command", "path_exists"}
                /\ NoLaterBegan(i) => ArchiveOf(i) = pre[i].file /\ TempFiles = {}

\* such a save ended "not found" with an earlier archive still in place
C7_Witness ==
    /\ op = "download" /\ status = "returned"
    /\ \E i \in Positions : /\ result[i] = "not_found"
                            /\ pre[i].defined
                            /\ pre[i].src = Absent /\ pre[i].stage = Absent
                            /\ pre[i].file.exists /\ ArchiveOf(i) = pre[i].file

\* C9: the name "docker" moves no data.  Its restore or save makes no
\* container call and no local write, does not raise, and the loop goes on
\* to the next name.
C9_DockerIsNoOp ==
    \A i \in Positions : (cache_names[i] = "docker" /\ pre[i].began) =>
        /\ result[i] = "ignored"
        /\ CallsAt(i) = {}
        /\ idx > i
        /\ NoLaterBegan(i) => ArchiveOf(i) = pre[i].file /\ fs[get_remote_temp_directory("docker")] = Absent

\* "docker" was ignored and the name after it was restored or saved
C9_Witness ==
    \E i \in Positions : /\ i < Len(cache_names)
                         /\ cache_names[i] = "docker" /\ result[i] = "ignored"
                         /\ result[i + 1] \in {"saved", "restored"}

BothDone == procs # <<>> /\ \A p \in Procs : procs[p].pc = "done"
Final == [fs |-> fs, local |-> local]
TargetOf(n) == sanitize_remote_path(cache_definitions[n])

C10_VariablesFirst ==
    parsed.done =>
        LET misplaced == \E i \in 2..Len(doc) : doc[i].key = "variables"
        IN /\ misplaced => /\ ~parsed.ok
                           /\ parsed.msg = "'variables' can only be the first element of the list"
                           /\ parsed.pipeline = <<>>
           /\ ~misplaced => /\ parsed.ok
                            /\ Len(parsed.pipeline) = Len(doc)
                            /\ (doc # <<>> /\ doc[1].key = "variables") =>
                                   parsed.pipeline[1].type = "Variables"

\* a step followed by a 'variables' item was rejected
C10_Witness ==
    /\ parsed.done /\ ~parsed.ok
    /\ Len(doc) = 2 /\ doc[1].key = "step" /\ doc[2].key = "variables"

\* C11: expansion never alters Image.name.  After expand_env_vars the name
\* is the string that was parsed, tokens and all, while in username,
\* password, email and the aws access key and secret key every token whose
\* name the mapping has is replaced by the mapped text.
Replaced(before, after, env) ==
    /\ Len(after) = Len(before)
    /\ \A i \in 1..Len(before) :
          IF before[i].kind = "tok" /\ before[i].text \in DOMAIN env
          THEN after[i] = Lit(env[before[i].text])
          ELSE after[i] = before[i]
HasToken(s, env) == \E i \in 1..Len(s) : s[i].kind = "tok" /\ s[i].text \in DOMAIN env
C11_NameNeverExpanded ==
    (parsed.done /\ parsed.ok /\ parsed.expanded) =>
        /\ parsed.image.name = doc.value.name
        /\ Replaced(doc.value.username, parsed.image.username, doc.env)
        /\ Replaced(doc.value.password, parsed.image.password, doc.env)
        /\ Replaced(doc.value.email, parsed.image.email, doc.env)
        /\ Replaced(doc.value.aws["access-key"], parsed.image.aws.access_key_id, doc.env)
        /\ Replaced(doc.value.aws["secret-key"], parsed.image.aws.secret_access_key, doc.env)

\* an expanded image whose name and username both held a token of the mapping
C11_Witness ==
    /\ parsed.done /\ parsed.ok /\ parsed.expanded
    /\ HasToken(doc.value.name, doc.env)
    /\ HasToken(doc.value.username, doc.env)
    /\ HasToken(doc.value.aws["secret-key"], doc.env)
    /\ parsed.image.username # doc.value.username

\* C12: an Image document whose aws mapping carries oidc-role is rejected
\* with "aws oidc-role not supported"; one whose aws mapping carries
\* access-key and secret-key and no oidc-role parses into an Image with both
\* AwsCredentials fields populated.
C12_OidcRoleRejected ==
    parsed.done =>
        /\ doc.value.aws["oidc-role"] # None =>
              ~parsed.ok /\ parsed.msg = OidcNotSupported
        /\ (/\ doc.value.aws["oidc-role"] = None
            /\ doc.value.aws["access-key"] # None
            /\ doc.value.aws["secret-key"] # None) =>
              /\ parsed.ok /\ parsed.image.aws.given
              /\ parsed.image.aws.access_key_id # None
              /\ parsed.image.aws.secret_access_key # None

\* a rejected document that carried oidc-role beside both keys
C12_Witness ==
    /\ parsed.done /\ ~parsed.ok
    /\ doc.value.aws["oidc-role"] # None
    /\ doc.value.aws["access-key"] # None

\* C13: default propagation.  In a parsed Definitions, Step or Pipelines,
\* no collection-valued field is null, and every field the document left out
\* is the empty collection of its kind: an empty mapping in Definitions, an
\* empty list in Step and Pipelines.
C13_DefaultsAreEmpty ==
    (parsed.done /\ parsed.ok) =>
        \A k \in ModelKeys[doc.model] :
            /\ parsed.model[k].kind = (IF doc.model = "Definitions" THEN "mapping" ELSE "list")
            /\ doc.value[k] = Missing => parsed.model[k].items = <<>>
            /\ doc.value[k] # Missing => parsed.model[k] = doc.value[k]

\* a parsed Step that carried a script and none of the optional collections
C13_Witness ==
    /\ parsed.done /\ parsed.ok /\ doc.model = "Step"
    /\ \A k \in ModelKeys["Step"] \ {"script"} : doc.value[k] = Missing

\* the calls made for position i, in the order they were made
CallsOf(i) == LET At(e) == e.pos = i IN SelectSeq(log, At)
RestoreOrder == <<"run_command", "put_archive", "run_command">>
GenericRestoreAt(i) ==
    /\ op = "upload" /\ pre[i].began
    /\ CacheRestoreFactory_get(cache_names[i]) = "CacheRestore"
    /\ pre[i].file.exists

\* C14: restore call order.  The calls of one generic restore with a local
\* archive are, in order, the staging-clear command, put_archive and the
\* placement command, and the placement command is issued only after
\* put_archive reported success.
C14_RestoreCallOrder ==
    \A i \in Positions : GenericRestoreAt(i) =>
        LET c == CallsOf(i)
        IN /\ Len(c) <= Len(RestoreOrder)
           /\ \A k \in 1..Len(c) : c[k].call = RestoreOrder[k]
           /\ Len(c) = Len(RestoreOrder) => c[2].ok

\* a restore that has issued all three calls
C14_Witness ==
    \E i \in Positions :
        /\ GenericRestoreAt(i) /\ result[i] = "restored"
        /\ Len(CallsOf(i)) = Len(RestoreOrder)

\* C15: a failed restore step is fatal.  In a generic restore a call that
\* reported failure (the staging-clear command, put_archive or the placement
\* command) is the last call made: the restore raised, upload raised at that
\* position, and no later call of the restore was issued.
C15_RestoreStepFailureIsFatal ==
    \A i \in Positions : GenericRestoreAt(i) =>
        LET c == CallsOf(i)
        IN \A k \in 1..Len(c) : ~c[k].ok =>
              /\ k = Len(c) /\ log[Len(log)] = c[k]
              /\ Raised(i) /\ status = "raised" /\ idx = i

\* the staging-clear command failed and nothing else was called
C15_Witness ==
    \E i \in Positions :
        /\ GenericRestoreAt(i) /\ result[i] = "raised_command"
        /\ Len(CallsOf(i)) = 1 /\ ~CallsOf(i)[1].ok

\* C16: streaming waits for the rename to staging.  In a generic save the
\* first call is the rename-to-staging command, every other call and local
\* file operation follows its exit code 0, and when it exits non-zero the
\* save raises having made no path_exists call, no get_archive call and no
\* local write.
C16_StreamingAfterPrepare ==
    op = "download" =>
        \A i \in Positions :
            LET c == CallsOf(i)
            IN /\ Len(c) >= 1 => c[1].call = "run_command"
               /\ Len(c) >= 2 => c[1].ok
               /\ (Len(c) >= 1 /\ ~c[1].ok) =>
                     /\ result[i] = "raised_command" /\ status = "raised" /\ idx = i
                     /\ ArchiveOf(i) = pre[i].file
                     /\ TempFiles = {}

\* the rename of an existing cache directory failed
C16_Witness ==
    /\ op = "download"
    /\ \E i \in Positions :
          /\ result[i] = "raised_command" /\ pre[i].src # Absent
          /\ CallsAt(i) = {"run_command"}

\* C17: when a generic restore has succeeded (upload is still running and
\* has not begun the next name), the target directory holds exactly the
\* contents of the local archive and the staging directory is gone, whatever
\* the target and the staging directory held before.
C17_RestoredTargetIsArchive ==
    op = "upload" =>
        \A i \in Positions : (result[i] = "restored" /\ NoLaterBegan(i)
                              /\ status = "running") =>
            /\ fs[TargetOf(cache_names[i])] = pre[i].file.body
            /\ fs[get_remote_temp_directory(cache_names[i])] = Absent

\* a restore over a stale target and a stale staging directory
C17_Witness ==
    /\ op = "upload"
    /\ \E i \in Positions :
          /\ result[i] = "restored" /\ NoLaterBegan(i) /\ status = "running"
          /\ pre[i].src # Absent /\ pre[i].src # pre[i].file.body
          /\ pre[i].stage # Absent /\ pre[i].stage # pre[i].file.body

\* C18: strategy resolution depends on the name alone and is the same for
\* restore and save.  "docker" resolves to the no-op strategy and every other
\* name to the generic one, never to DockerCacheRestore or DockerCacheSave:
\* a finished "docker" position was ignored without a call, and every other
\* finished position has an outcome of the generic strategy.
GenericOutcomes ==
    {"miss", "restored", "not_found", "saved", "stream_failed",
     "raised_command", "raised_put", "raised_key"}
C18_StrategyByNameOnly ==
    /\ \A n \in CacheNames :
          /\ CacheRestoreFactory_get(n) = (IF n = "docker" THEN "NullCacheRestore" ELSE "CacheRestore")
          /\ CacheSaveFactory_get(n) = (IF n = "docker" THEN "NullCacheSave" ELSE "CacheSave")
    /\ \A i \in Positions : result[i] # "pending" =>
          IF cache_names[i] = "docker"
          THEN result[i] = "ignored" /\ CallsOf(i) = <<>>
          ELSE result[i] \in GenericOutcomes

\* an upload and a download each handle "docker" beside a generic name
C18_Witness ==
    /\ status = "returned" /\ Len(cache_names) = 2
    /\ cache_names[1] = "docker" /\ result[1] = "ignored"
    /\ result[2] \in {"restored", "saved"}

\* C19: names are processed one after another in list order.  Every call is
\* made for the name at the position the loop is at; the positions of the
\* calls never decrease; every position before the current one has finished;
\* and no position after it has begun or made a call.
C19_SequentialInListOrder ==
    op # "none" =>
        /\ \A k \in 1..Len(log) :
              /\ log[k].pos \in Positions /\ log[k].pos <= idx
              /\ log[k].name = cache_names[log[k].pos]
              /\ \A l \in 1..Len(log) : k < l => log[k].pos <= log[l].pos
        /\ \A i \in Positions :
              /\ i < idx => result[i] # "pending" /\ pre[i].began
              /\ i > idx => result[i] = "pending" /\ ~pre[i].began /\ CallsOf(i) = <<>>
              /\ (pre[i].began /\ i > 1) => result[i - 1] # "pending"

\* the second name's calls follow the first name's
C19_Witness ==
    /\ Len(cache_names) = 2 /\ idx = 2 /\ pc # "loop"
    /\ CallsOf(1) # <<>> /\ CallsOf(2) # <<>>

\* C20: image exports are isolated from each other.  When DockerCacheSave.save
\* has returned and the export of one image raised while streaming, every
\* image was processed, no temporary file is left, the destination path of
\* the failed image holds what it held before the save, and every other
\* image whose own export did not raise has its archive at its own
\* destination path.
ImagePositions == 1..Len(docker.images)
DstOf(i) == archive_name(docker.images[i])
C20_ImageExportsIsolated ==
    (docker.pc = "done" /\ \E i \in ImagePositions : docker.result[i] = "failed") =>
        /\ \A i \in ImagePositions : docker.result[i] \in {"saved", "failed"}
        /\ ~docker.tmp.exists
        /\ \A i \in ImagePositions :
              /\ docker.result[i] = "failed" => docker.files[DstOf(i)] = docker.old[DstOf(i)]
              /\ docker.result[i] = "saved" =>
                    docker.files[DstOf(i)] = ImageArchive(docker.images[i])

\* the same, over image lists whose archive names are pairwise different
NamesDiffer == \A i, j \in ImagePositions : i # j => DstOf(i) # DstOf(j)
DockerSaveIsolatedWhenNamesDiffer == NamesDiffer => C20_ImageExportsIsolated

\* C21: save/restore round trip.  When a generic restore has succeeded in a
\* container other than the one in which a successful generic save of an
\* existing source directory wrote the archive of the name, the target
\* directory holds exactly what the source directory held when that save
\* began.
C21_SaveRestoreRoundTrip ==
    op = "upload" =>
        \A i \in Positions : (result[i] = "restored" /\ NoLaterBegan(i)
                              /\ status = "running"
                              /\ saved[cache_names[i]].done
                              /\ saved[cache_names[i]].src # Absent
                              /\ ~saved[cache_names[i]].here) =>
            fs[TargetOf(cache_names[i])] = saved[cache_names[i]].src

\* C22: the archive written by a successful generic save of an existing
\* source directory holds exactly what the source directory held when the
\* save began, whatever staging directory the container already had.
C22_ArchiveIsSource ==
    op = "download" =>
        \A i \in Positions : (result[i] = "saved" /\ NoLaterBegan(i)
                              /\ status = "running"
                              /\ pre[i].src # Absent) =>
            /\ ArchiveOf(i).exists
            /\ ArchiveOf(i).body = pre[i].src

\* C23: generic save is destructive.  Once the rename-to-staging command of a
\* save has succeeded on an existing source directory, and for as long as
\* nothing but that save acts on the container, the source directory does not
\* exist at its defined path and the save issues no further command, whether
\* the download succeeds, fails mid-stream or has not ended yet.
C23_SaveMovesSourceAway ==
    op = "download" =>
        \A i \in Positions :
            LET c == CallsOf(i)
            IN (/\ pre[i].began /\ pre[i].src # Absent
                /\ Len(c) >= 1 /\ c[1].ok
                /\ status = "running" /\ NoLaterBegan(i)) =>
                  /\ fs[TargetOf(cache_names[i])] = Absent
                  /\ fs[get_remote_temp_directory(cache_names[i])] # Absent
                  /\ \A k \in 2..Len(c) : c[k].call # "run_command"

\* the source was moved away and the download then failed mid-stream
C23_Witness ==
    /\ op = "download" /\ status = "running"
    /\ \E i \in Positions :
          /\ result[i] = "stream_failed" /\ NoLaterBegan(i)
          /\ pre[i].src # Absent /\ "write" \in CallsAt(i)
          /\ fs[TargetOf(cache_names[i])] = Absent

\* C24: cache names are checked against the definitions lazily.  For a
\* generic name without a definition: a save raises having made no call and
\* no local write; a restore without a local archive ends as a miss without
\* a call; a restore with a local archive never restores, and when it raises
\* for the missing definition it has issued the staging-clear command and
\* put_archive, both successful, and the staging directory holds the
\* archive's contents.
UndefinedGenericAt(i) ==
    /\ pre[i].began /\ ~pre[i].defined
    /\ cache_names[i] # "docker"
C24_DefinitionsCheckedLazily ==
    \A i \in Positions : UndefinedGenericAt(i) =>
        /\ op = "download" =>
              /\ result[i] = "raised_key" /\ status = "raised" /\ idx = i
              /\ CallsOf(i) = <<>>
              /\ ArchiveOf(i) = pre[i].file /\ TempFiles = {}
        /\ (op = "upload" /\ ~pre[i].file.exists) =>
              /\ result[i] = "miss" /\ CallsOf(i) = <<>>
              /\ ~(status = "raised" /\ idx = i)
        /\ (op = "upload" /\ pre[i].file.exists) =>
              /\ result[i] \in {"pending", "raised_command", "raised_put", "raised_key"}
              /\ result[i] = "raised_key" =>
                    /\ status = "raised" /\ idx = i
                    /\ Len(CallsOf(i)) = 2
                    /\ CallsOf(i)[1].call = "run_command" /\ CallsOf(i)[1].ok
                    /\ CallsOf(i)[2].call = "put_archive" /\ CallsOf(i)[2].ok
                    /\ fs[get_remote_temp_directory(cache_names[i])] = pre[i].file.body

\* a restore of an undefined name raised with its archive uploaded
C24_Witness ==
    /\ op = "upload" /\ status = "raised"
    /\ UndefinedGenericAt(idx) /\ result[idx] = "raised_key"
    /\ pre[idx].file.exists
    /\ fs[get_remote_temp_directory(cache_names[idx])] # Absent

====
